---- MODULE Spec2Model ----
(***************************************************************************)
(* A model of makefile.py, the Makefile generator for C/C++ source trees.  *)
(*                                                                         *)
(* A file name is a sequence of its dot-separated pieces: "x.pb.h" is      *)
(* <<"x", "pb", "h">>.  A path is a sequence whose leading pieces are      *)
(* directories ("src", "build") followed by the pieces of a file name.     *)
(* The source trees considered are flat (every file sits directly in the   *)
(* source root).  The text of a file is a sequence of lines; each line is  *)
(* classified by the one regular expression of makefile.py it matches.     *)
(***************************************************************************)
EXTENDS Integers, Sequences, FiniteSets, TLC

VARIABLES tree, pc, idx, out, files, file_map, dependencies,
          executables, build_directories, patterns, dir_targets, error

vars == <<tree, pc, idx, out, files, file_map, dependencies,
          executables, build_directories, patterns, dir_targets, error>>

-----------------------------------------------------------------------------
(* Bounds of the source trees explored.                                    *)

MaxFiles == 3
MaxGraphFiles == 4
MaxEdges == 4
MaxLines == 4
MaxLibLines == 2

-----------------------------------------------------------------------------
(* Generic helpers on sequences.                                           *)

Range(s) == {s[k] : k \in DOMAIN s}

NoDup(s) == \A a, b \in DOMAIN s : a # b => s[a] # s[b]

Last(s) == s[Len(s)]

Front(s) == SubSeq(s, 1, Len(s) - 1)

RECURSIVE Concat(_)
Concat(ss) == IF ss = <<>> THEN <<>> ELSE Head(ss) \o Concat(Tail(ss))

\* All orderings of a finite set, as sequences.
Orderings(S) ==
    {s \in [1..Cardinality(S) -> S] : \A a, b \in DOMAIN s : a # b => s[a] # s[b]}

-----------------------------------------------------------------------------
(* Paths and the command line.                                             *)

src_dir == <<"src">>

build_root == <<"build">>

pathjoin(dir, name) == dir \o name

-----------------------------------------------------------------------------
(* Extraction utilities: the module-level regular expressions.             *)

Line(k, v) == [k |-> k, v |-> v]

\* A faulty variant: the pattern is tried at the start of the text only.
has_main_at_start(contents) == contents # <<>> /\ contents[1].k = "main"

has_main(contents) == \E n \in DOMAIN contents : contents[n].k = "main"

Matching(contents, kind) ==
    LET found == SelectSeq(contents, LAMBDA l : l.k = kind)
    IN  [n \in DOMAIN found |-> found[n].v]

get_includes(contents) == Matching(contents, "include")

get_imports(contents) == Matching(contents, "import")

\* A faulty variant: the annotations come out last first.
get_compileargs_reversed(contents) ==
    LET found == Matching(contents, "compileargs")
    IN  [n \in DOMAIN found |-> found[Len(found) + 1 - n]]

get_compileargs(contents) == Matching(contents, "compileargs")

get_linkargs(contents) == Matching(contents, "linkargs")

-----------------------------------------------------------------------------
(* The kind registry (the handles decorator).                              *)

CCExt == "cc"
CExt == "c"
HExt == "h"
CCHExt == "cch"
ProtoExt == "proto"

file_types == {CCExt, CExt, HExt, CCHExt, ProtoExt}

produces(extension) ==
    CASE extension = CCExt -> << <<"o">> >>
      [] extension = CExt -> << <<"o">> >>
      [] extension = CCHExt -> << <<"cch", "o">> >>
      [] extension = ProtoExt -> << <<"grpc", "pb", "o">>, <<"pb", "o">> >>
      [] OTHER -> <<>>

INCOMPATIBLE == "INCOMPATIBLE"
REPLACE == "REPLACE"
DROP == "DROP"

-----------------------------------------------------------------------------
(* The File entity and its kind variants.                                  *)

splitext(filename) == [base |-> Front(filename), extension |-> Last(filename)]

swap_extension(file, new_extension) == file.base \o new_extension

get_variants(file, extensions, prepend_dir) ==
    [k \in DOMAIN extensions |-> pathjoin(prepend_dir, swap_extension(file, extensions[k]))]

get_aliases(file) ==
    CASE file.extension \in {CCExt, CExt} ->
            <<file.filename, swap_extension(file, <<"h">>)>>
      [] file.extension = CCHExt ->
            <<file.filename, file.filename \o <<"h">> >>
      [] file.extension = ProtoExt ->
            <<file.filename, swap_extension(file, <<"pb", "h">>),
              swap_extension(file, <<"grpc", "pb", "h">>)>>
      [] OTHER -> <<file.filename>>

artifacts(file) == get_variants(file, produces(file.extension), <<>>)

\* A faulty variant: a compiled unit does not know its own header.
CCHasRelationStrict(self, file) == INCOMPATIBLE

\* has_relation of the owner self, asked about the newly discovered file.
CCHasRelation(self, file) ==
    IF swap_extension(self, <<"h">>) = file.filename THEN DROP ELSE INCOMPATIBLE

\* A faulty variant: a header does not yield to its compiled unit.
HeaderHasRelationStrict(self, file) == INCOMPATIBLE

HeaderHasRelation(self, file) ==
    IF self.base = file.base /\ file.extension \in {CCExt, CExt}
    THEN REPLACE ELSE INCOMPATIBLE

has_relation(self, file) ==
    CASE self.extension \in {CCExt, CExt} -> CCHasRelation(self, file)
      [] self.extension = HExt -> HeaderHasRelation(self, file)
      [] OTHER -> INCOMPATIBLE

\* File.__init__ followed by the kind's initialize(contents).
initialize(file, contents) ==
    CASE file.extension = CCExt ->
            [file EXCEPT !.includes = get_includes(contents),
                         !.compileargs = get_compileargs(contents),
                         !.linkargs = get_linkargs(contents),
                         !.is_link_target = has_main(contents)]
      [] file.extension = CExt ->
            [file EXCEPT !.includes = get_includes(contents),
                         !.compileargs = get_compileargs(contents),
                         !.linkargs = get_linkargs(contents)]
      [] file.extension = HExt ->
            [file EXCEPT !.includes =
                SelectSeq(get_includes(contents),
                          LAMBDA s : s \notin Range(get_aliases(file)))]
      [] file.extension = CCHExt ->
            [file EXCEPT !.includes =
                SelectSeq(get_includes(contents),
                          LAMBDA s : s \notin Range(get_aliases(file))),
                         !.compileargs = get_compileargs(contents),
                         !.linkargs = get_linkargs(contents)]
      [] file.extension = ProtoExt ->
            [file EXCEPT !.includes = get_imports(contents)]

NewFile(filename, contents) ==
    initialize([fullpath |-> src_dir \o filename,
                filename |-> filename,
                base |-> splitext(filename).base,
                extension |-> splitext(filename).extension,
                includes |-> <<>>,
                compileargs |-> <<>>,
                linkargs |-> <<>>,
                is_link_target |-> FALSE],
               contents)

dirname(path) == IF path = <<>> THEN <<>> ELSE <<Head(path)>>

-----------------------------------------------------------------------------
(* Errors: every raise and failed assert ends the run.                     *)

NoError == [type |-> "none", name |-> <<>>, file |-> <<>>]

DuplicateAlias(alias, in_map) ==
    [type |-> "DuplicateAlias", name |-> alias, file |-> in_map.filename]

UnresolvedInclude(file, include) ==
    [type |-> "UnresolvedInclude", name |-> include, file |-> file.filename]

AssertionError(file) ==
    [type |-> "AssertionError", name |-> <<>>, file |-> file.filename]

-----------------------------------------------------------------------------
(* Alias map construction: the loop over file.get_aliases() run for the    *)
(* file F[fi] that was just appended to files.  A File object is           *)
(* identified by its position in files.                                    *)

EmptyMap == [n \in {} |-> 0]

MapPut(map, key, value) ==
    [n \in DOMAIN map \cup {key} |-> IF n = key THEN value ELSE map[n]]

RECURSIVE InsertAliases(_, _, _, _)
\* A faulty variant: an INCOMPATIBLE answer is not raised, and the claim is dropped.
InsertAliasesLenient(F, map, fi, k) ==
    LET aliases == get_aliases(F[fi])
    IN  IF k > Len(aliases) THEN [map |-> map, error |-> NoError]
        ELSE IF aliases[k] \in DOMAIN map
                /\ has_relation(F[map[aliases[k]]], F[fi]) # REPLACE
             THEN InsertAliases(F, map, fi, k + 1)
             ELSE InsertAliases(F, MapPut(map, aliases[k], fi), fi, k + 1)

InsertAliases(F, map, fi, k) ==
    LET aliases == get_aliases(F[fi])
    IN  IF k > Len(aliases) THEN [map |-> map, error |-> NoError]
        ELSE LET alias == aliases[k]
             IN  IF alias \in DOMAIN map
                 THEN LET in_map == F[map[alias]]
                          action == has_relation(in_map, F[fi])
                      IN  CASE action = INCOMPATIBLE ->
                                  [map |-> map, error |-> DuplicateAlias(alias, in_map)]
                            [] action = DROP -> InsertAliases(F, map, fi, k + 1)
                            [] OTHER ->
                                  InsertAliases(F, MapPut(map, alias, fi), fi, k + 1)
                 ELSE InsertAliases(F, MapPut(map, alias, fi), fi, k + 1)

-----------------------------------------------------------------------------
(* Edge construction: the loop over file.includes for the file F[fi].      *)

RECURSIVE ResolveIncludes(_, _, _, _, _)
ResolveIncludes(F, map, fi, deps, k) ==
    IF k > Len(F[fi].includes) THEN [deps |-> deps, error |-> NoError]
    ELSE LET include == F[fi].includes[k]
         IN  IF include \notin DOMAIN map
             THEN [deps |-> deps, error |-> UnresolvedInclude(F[fi], include)]
             ELSE IF map[include] # fi
                  THEN ResolveIncludes(F, map, fi, Append(deps, map[include]), k + 1)
                  ELSE ResolveIncludes(F, map, fi, deps, k + 1)

-----------------------------------------------------------------------------
(* Transitive closure: File.__recursive_deps.  deps and seen are the       *)
(* accumulators shared by reference between the recursive calls; a call    *)
(* that receives an empty accumulator works on a fresh object instead.     *)

RECURSIVE RecursiveLoop(_, _, _, _, _)
\* A faulty variant: seen is copied for the call, which then adds to its own copy.
SharedCallCopied(F, D, dep, deps, seen) ==
    [deps |-> RecursiveLoop(F, D, dep, 1, [deps |-> deps, seen |-> seen]).deps,
     seen |-> seen]

SharedCall(F, D, dep, deps, seen) ==
    LET r == RecursiveLoop(F, D, dep, 1, [deps |-> deps, seen |-> seen])
    IN  [deps |-> IF deps = <<>> THEN deps ELSE r.deps,
         seen |-> IF seen = {} THEN seen ELSE r.seen]

\* A faulty variant: a dependency is appended after its own dependencies.
RecursiveLoopAppendLate(F, D, self, k, acc) ==
    IF k > Len(D[self]) THEN acc
    ELSE LET dep == D[self][k]
         IN  IF F[dep].filename \notin acc.seen
             THEN LET r == RecursiveLoop(F, D, dep, 1,
                              [deps |-> acc.deps,
                               seen |-> acc.seen \cup {F[dep].filename}])
                  IN  RecursiveLoop(F, D, self, k + 1,
                         [deps |-> Append(r.deps, dep), seen |-> r.seen])
             ELSE RecursiveLoop(F, D, self, k + 1, acc)

RecursiveLoop(F, D, self, k, acc) ==
    IF k > Len(D[self]) THEN acc
    ELSE LET dep == D[self][k]
         IN  IF F[dep].filename \notin acc.seen
             THEN RecursiveLoop(F, D, self, k + 1,
                     SharedCall(F, D, dep, Append(acc.deps, dep),
                                acc.seen \cup {F[dep].filename}))
             ELSE RecursiveLoop(F, D, self, k + 1, acc)

recursive_deps(F, D, self) ==
    RecursiveLoop(F, D, self, 1, [deps |-> <<>>, seen |-> {}]).deps

\* __apply_rec with the getter of get_compile_dependencies: the last alias.
get_compile_dependencies(F, D, self) ==
    Concat([k \in DOMAIN recursive_deps(F, D, self) |->
              LET a == get_aliases(F[recursive_deps(F, D, self)[k]])
              IN  SubSeq(a, Len(a), Len(a))])

get_link_dependencies(F, D, self) ==
    Concat([k \in DOMAIN recursive_deps(F, D, self) |->
              artifacts(F[recursive_deps(F, D, self)[k]])])

\* File.get_linkargs: a set, so its iteration order is not determined.
get_linkargs_set(F, D, self) ==
    Range(Concat([k \in DOMAIN recursive_deps(F, D, self) |->
                    F[recursive_deps(F, D, self)[k]].linkargs]))

-----------------------------------------------------------------------------
(* Rule emission.  A printed block of the output document is a record: its *)
(* targets, its prerequisites, the tool of its recipe and the flag strings *)
(* the recipe takes from the annotations.                                  *)

Block(t, targets, prereqs, recipe, args) ==
    [t |-> t, targets |-> targets, prereqs |-> prereqs, recipe |-> recipe, args |-> args]

Emitted(lines, directories, execs, pats) ==
    [lines |-> lines, directories |-> directories, executables |-> execs,
     patterns |-> pats]

JoinAll(dir, names) == [k \in DOMAIN names |-> pathjoin(dir, names[k])]

\* The directory of a flat file is empty, so build_dir is the build root.
build_dir_of(file, out_dir) == pathjoin(out_dir, <<>>)

CCEmit(F, D, self, out_dir, linkorder) ==
    LET file == F[self]
        obj_file == pathjoin(out_dir, swap_extension(file, <<"o">>))
        includes == JoinAll(out_dir, get_compile_dependencies(F, D, self))
        compile == Block("compile", <<obj_file>>, <<file.fullpath>> \o includes,
                         "CXX", file.compileargs)
        executable == pathjoin(out_dir, swap_extension(file, <<>>))
        deps == JoinAll(out_dir, get_link_dependencies(F, D, self))
        link == Block("link", <<executable>>, deps \o <<obj_file>>,
                      "CXX", linkorder \o file.linkargs)
    IN  IF file.is_link_target
        THEN Emitted(<<compile, link>>, <<dirname(obj_file)>>, <<executable>>, <<>>)
        ELSE Emitted(<<compile>>, <<dirname(obj_file)>>, <<>>, <<>>)

CEmit(F, D, self, out_dir) ==
    LET file == F[self]
        obj_file == pathjoin(out_dir, swap_extension(file, <<"o">>))
        includes == JoinAll(out_dir, get_compile_dependencies(F, D, self))
        compile == Block("compile", <<obj_file>>, <<file.fullpath>> \o includes,
                         "CC", file.compileargs)
    IN  Emitted(<<compile>>, <<dirname(obj_file)>>, <<>>, <<>>)

HeaderEmit(F, D, self, out_dir) ==
    LET build_dir == build_dir_of(F[self], out_dir)
        pattern == Block("pattern", <<pathjoin(build_dir, <<"%", "h">>)>>,
                         <<pathjoin(src_dir, <<"%", "h">>)>>, "cp", <<>>)
    IN  Emitted(<<>>, <<build_dir>>, <<>>, <<pattern>>)

CCHEmit(F, D, self, out_dir) ==
    LET file == F[self]
        variants == get_variants(file, << <<"cch", "cc">>, <<"cch", "o">> >>, out_dir)
        cc_file == variants[1]
        obj_file == variants[2]
        includes == JoinAll(out_dir, get_compile_dependencies(F, D, self))
        build_dir == build_dir_of(file, out_dir)
        output_base == pathjoin(build_dir, <<"%", "cch">>)
        pattern == Block("pattern", <<output_base \o <<"cc">>, output_base \o <<"h">> >>,
                         <<pathjoin(src_dir, <<"%", "cch">>)>>, "CCH", <<>>)
        compile == Block("compile", <<obj_file>>, <<cc_file>> \o includes,
                         "CXX", file.compileargs)
    IN  Emitted(<<compile>>, <<build_dir>>, <<>>, <<pattern>>)

ProtobufEmit(F, D, self, out_dir) ==
    LET file == F[self]
        grpc == get_variants(file, << <<"grpc", "pb", "cc">>, <<"grpc", "pb", "o">> >>, out_dir)
        pb == get_variants(file, << <<"pb", "cc">>, <<"pb", "o">> >>, out_dir)
        build_dir == build_dir_of(file, out_dir)
        pattern == Block("pattern",
                         JoinAll(build_dir, << <<"%", "grpc", "pb", "cc">>,
                                               <<"%", "grpc", "pb", "h">>,
                                               <<"%", "pb", "cc">>, <<"%", "pb", "h">> >>),
                         <<pathjoin(src_dir, <<"%", "proto">>)>>, "PROTOC", <<>>)
        deps == JoinAll(out_dir, get_compile_dependencies(F, D, self))
    IN  Emitted(<<Block("compile", <<pb[2]>>, <<pb[1]>> \o deps, "CXX", <<>>),
                  Block("compile", <<grpc[2]>>, <<grpc[1]>> \o deps, "CXX", <<>>)>>,
                <<build_dir>>, <<>>, <<pattern>>)

emit(F, D, self, out_dir, linkorder) ==
    CASE F[self].extension = CCExt -> CCEmit(F, D, self, out_dir, linkorder)
      [] F[self].extension = CExt -> CEmit(F, D, self, out_dir)
      [] F[self].extension = HExt -> HeaderEmit(F, D, self, out_dir)
      [] F[self].extension = CCHExt -> CCHEmit(F, D, self, out_dir)
      [] F[self].extension = ProtoExt -> ProtobufEmit(F, D, self, out_dir)

\* The orders in which list(self.get_linkargs()) may come out.
LinkOrders(F, D, self) ==
    IF F[self].extension = CCExt /\ F[self].is_link_target
    THEN Orderings(get_linkargs_set(F, D, self))
    ELSE {<<>>}

-----------------------------------------------------------------------------
(* The source trees explored.  tree is the sequence of files find_files    *)
(* has yielded so far; a file is its path below the source root and its    *)
(* text.                                                                   *)

SourceFile(path, contents) == [path |-> path, contents |-> contents]

Paths(t) == {t[k].path : k \in DOMAIN t}

LinesIn(t) == Len(Concat([k \in DOMAIN t |-> t[k].contents]))

RECURSIVE SeqsUpTo(_, _)
SeqsUpTo(S, n) ==
    IF n <= 0 THEN {<<>>}
    ELSE LET shorter == SeqsUpTo(S, n - 1)
         IN  shorter \cup
             {Append(s, x) : s \in {q \in shorter : Len(q) = n - 1}, x \in S}

\* Alias trees: up to MaxFiles files, in every order, whose names meet on
\* shared logical names; each file includes every file found before it.
AliasNames ==
    { <<"x", "cc">>, <<"x", "c">>, <<"x", "h">>, <<"x", "cch">>, <<"x", "proto">>,
      <<"x", "pb", "h">>, <<"x", "grpc", "pb", "h">>, <<"x", "cch", "h">>,
      <<"x", "pb", "cc">>, <<"x", "cch", "cc">>, <<"x", "grpc", "proto">>,
      <<"y", "h">>, <<"y", "cc">> }

DirectiveOf(path) == IF Last(path) = ProtoExt THEN "import" ELSE "include"

AliasSources(t) ==
    IF Len(t) >= MaxFiles THEN {}
    ELSE {SourceFile(n, [k \in DOMAIN t |-> Line(DirectiveOf(n), t[k].path)]) :
            n \in AliasNames \ Paths(t)}

\* Graph trees: up to MaxGraphFiles of the files below, found in this
\* order, with at most MaxEdges include lines in all; any of the four
\* headers may be included, present or not.  The headers b.h, c.h and d.h
\* are alike, so c.h is found only with b.h and d.h only with c.h.
GraphNames ==
    << <<"a", "h">>, <<"a", "cc">>, <<"b", "h">>, <<"c", "h">>, <<"d", "h">> >>

IncludeNames == { <<"a", "h">>, <<"b", "h">>, <<"c", "h">>, <<"d", "h">> }

IncludeLines == {Line("include", n) : n \in IncludeNames}

GraphSources(t) ==
    IF Len(t) >= MaxGraphFiles THEN {}
    ELSE LET later == {k \in DOMAIN GraphNames :
                          /\ \A j \in DOMAIN GraphNames :
                                GraphNames[j] \in Paths(t) => j < k
                          /\ GraphNames[k][1] \in {"a", "b"}
                             \/ GraphNames[k - 1] \in Paths(t)}
         IN  {SourceFile(GraphNames[k], text) :
                 k \in later, text \in SeqsUpTo(IncludeLines, MaxEdges - LinesIn(t))}

\* Flag trees: one compiled unit m.cc or m.c whose text has up to MaxLines
\* lines, then possibly the library l.cc with up to MaxLibLines lines.
UnitNames == { <<"m", "cc">>, <<"m", "c">> }

UnitLines ==
    { Line("main", <<>>), Line("compileargs", <<"c1">>), Line("compileargs", <<"c2">>),
      Line("linkargs", <<"l1">>), Line("include", <<"l", "h">>) }

LibLines == { Line("linkargs", <<"l2">>), Line("include", <<"m", "h">>) }

FlagSources(t) ==
    IF t = <<>>
    THEN {SourceFile(n, text) : n \in UnitNames, text \in SeqsUpTo(UnitLines, MaxLines)}
    ELSE IF Len(t) = 1
         THEN {SourceFile(<<"l", "cc">>, text) : text \in SeqsUpTo(LibLines, MaxLibLines)}
         ELSE {}

-----------------------------------------------------------------------------
(* The main program, one action per step of its loops.                     *)

Preamble == Block("preamble", <<>>, <<>>, "", <<>>)

PrintPreamble ==
    /\ pc = "preamble"
    /\ out' = Append(out, Preamble)
    /\ pc' = "discover"
    /\ UNCHANGED <<tree, idx, files, file_map, dependencies, executables,
                   build_directories, patterns, dir_targets, error>>

\* One iteration of the loop over find_files, for the file source that the
\* walk yields next: build the File, append it, then insert its aliases
\* into file_map.
Discover(source) ==
    /\ pc = "discover"
    /\ tree' = Append(tree, source)
    /\ LET fi == Len(files) + 1
           file == NewFile(source.path, source.contents)
           F == Append(files, file)
           r == InsertAliases(F, file_map, fi, 1)
       IN  /\ files' = F
           /\ dependencies' = Append(dependencies, <<>>)
           /\ file_map' = r.map
           /\ error' = r.error
           /\ pc' = IF r.error # NoError THEN "error" ELSE "discover"
    /\ UNCHANGED <<idx, out, executables, build_directories, patterns, dir_targets>>

\* find_files is exhausted: the discovery loop ends.
EndDiscover ==
    /\ pc = "discover"
    /\ pc' = IF files = <<>> THEN "finish" ELSE "resolve"
    /\ idx' = 1
    /\ UNCHANGED <<tree, out, files, file_map, dependencies, executables,
                   build_directories, patterns, dir_targets, error>>

\* One iteration of the outer loop that resolves the dependency tree.
Resolve ==
    /\ pc = "resolve"
    /\ LET r == ResolveIncludes(files, file_map, idx, dependencies[idx], 1)
       IN  /\ dependencies' = [dependencies EXCEPT ![idx] = r.deps]
           /\ error' = r.error
           /\ pc' = IF r.error # NoError THEN "error"
                    ELSE IF idx = Len(files) THEN "emit" ELSE "resolve"
           /\ idx' = IF r.error # NoError THEN idx
                     ELSE IF idx = Len(files) THEN 1 ELSE idx + 1
    /\ UNCHANGED <<tree, out, files, file_map, executables, build_directories,
                   patterns, dir_targets>>

AddTargets(targets, execs) ==
    [d \in DOMAIN targets \cup {dirname(e) : e \in Range(execs)} |->
        (IF d \in DOMAIN targets THEN targets[d] ELSE <<>>)
        \o SelectSeq(execs, LAMBDA e : dirname(e) = d)]

\* One iteration of the emission loop: the two assertions, then emit().
Emit ==
    /\ pc = "emit"
    /\ LET cd == get_compile_dependencies(files, dependencies, idx)
           ld == get_link_dependencies(files, dependencies, idx)
       IN  IF ~(NoDup(cd) /\ NoDup(ld))
           THEN /\ pc' = "error"
                /\ error' = AssertionError(files[idx])
                /\ UNCHANGED <<idx, out, executables, build_directories, patterns,
                               dir_targets>>
           ELSE \E linkorder \in LinkOrders(files, dependencies, idx) :
                  LET emitted == emit(files, dependencies, idx, build_root, linkorder)
                  IN  /\ out' = out \o emitted.lines
                      /\ executables' = executables \o emitted.executables
                      /\ dir_targets' = AddTargets(dir_targets, emitted.executables)
                      /\ build_directories' =
                            build_directories \cup Range(emitted.directories)
                      /\ patterns' = patterns \cup Range(emitted.patterns)
                      /\ pc' = IF idx = Len(files) THEN "finish" ELSE "emit"
                      /\ idx' = IF idx = Len(files) THEN idx ELSE idx + 1
                      /\ error' = error
    /\ UNCHANGED <<tree, files, file_map, dependencies>>

\* The directory targets, in the insertion order of dir_targets; the
\* executables of a flat tree all share one directory.
DirectoryBlocks ==
    LET dirs == CHOOSE ds \in Orderings(DOMAIN dir_targets) : TRUE
    IN  [k \in DOMAIN dirs |-> Block("directory", <<dirs[k]>>, dir_targets[dirs[k]], "", <<>>)]

\* The pattern rules (a set, printed in its iteration order), the directory
\* targets and the post-amble.
Finish ==
    /\ pc = "finish"
    /\ \E order \in Orderings(patterns) :
          out' = out \o order \o DirectoryBlocks
                     \o <<Block("postamble", <<>>, executables, "", <<>>)>>
    /\ pc' = "done"
    /\ UNCHANGED <<tree, idx, files, file_map, dependencies, executables,
                   build_directories, patterns, dir_targets, error>>

Init ==
    /\ tree = <<>>
    /\ pc = "preamble"
    /\ idx = 1
    /\ out = <<>>
    /\ files = <<>>
    /\ file_map = EmptyMap
    /\ dependencies = <<>>
    /\ executables = <<>>
    /\ build_directories = {}
    /\ patterns = {}
    /\ dir_targets = [d \in {} |-> <<>>]
    /\ error = NoError

DiscoverAlias == \E source \in AliasSources(tree) : Discover(source)

DiscoverGraph == \E source \in GraphSources(tree) : Discover(source)

DiscoverFlags == \E source \in FlagSources(tree) : Discover(source)

NextAlias == PrintPreamble \/ DiscoverAlias \/ EndDiscover \/ Resolve \/ Emit \/ Finish

NextGraph == PrintPreamble \/ DiscoverGraph \/ EndDiscover \/ Resolve \/ Emit \/ Finish

NextFlags == PrintPreamble \/ DiscoverFlags \/ EndDiscover \/ Resolve \/ Emit \/ Finish

SpecAlias == Init /\ [][NextAlias]_vars

SpecGraph == Init /\ [][NextGraph]_vars

SpecFlags == Init /\ [][NextFlags]_vars

-----------------------------------------------------------------------------
(* Phases of a run, as the claims speak of them.                           *)

\* Alias-map construction is over and raised nothing.
AliasMapDone ==
    pc \in {"resolve", "emit", "finish", "done"}
    \/ error.type \in {"UnresolvedInclude", "AssertionError"}

\* Edge construction is over and raised nothing.
EdgesDone == pc \in {"emit", "finish", "done"} \/ error.type = "AssertionError"

CompileDeps(f) == get_compile_dependencies(files, dependencies, f)

LinkDeps(f) == get_link_dependencies(files, dependencies, f)

Closure(f) == recursive_deps(files, dependencies, f)

\* The Files reachable from f by one or more dependency edges.
RECURSIVE ReachFrom(_)
ReachFrom(S) ==
    LET next == S \cup UNION {Range(dependencies[g]) : g \in S}
    IN  IF next = S THEN S ELSE ReachFrom(next)

Reachable(f) == ReachFrom(Range(dependencies[f]))

OnCycle(f) == f \in Reachable(f)

-----------------------------------------------------------------------------
(* C1  Self-exclusion: once the edges are built, no File is in its own     *)
(* direct dependency list, and neither its compile-time nor its link-time  *)
(* dependency list holds one of its own alias or artifact names, cycles    *)
(* included.  The closure puts a File that lies on an include cycle into   *)
(* its own lists, so the statement fails.                                  *)

\* C1: no File is its own direct dependency, nor names itself in its
\* compile-time or link-time dependency list.
C1_SelfExclusion ==
    EdgesDone =>
        \A f \in DOMAIN files :
            /\ f \notin Range(dependencies[f])
            /\ Range(get_aliases(files[f])) \cap Range(CompileDeps(f)) = {}
            /\ Range(artifacts(files[f])) \cap Range(LinkDeps(f)) = {}

-----------------------------------------------------------------------------
(* C2  No duplicate closure: whenever alias-map and edge construction      *)
(* succeed, the compile-time and the link-time dependency list of every    *)
(* File are free of repeated names, so the assertions of the emission loop *)
(* never fail; diamonds and cycles included.                               *)

\* C2: with the edges built, no dependency list repeats a name and the
\* assertions of the emission loop hold.
C2_NoDuplicateClosure ==
    EdgesDone =>
        /\ error.type # "AssertionError"
        /\ \A f \in DOMAIN files : NoDup(CompileDeps(f)) /\ NoDup(LinkDeps(f))

Diamond(f) ==
    \E b, c, d \in DOMAIN files :
        /\ Cardinality({f, b, c, d}) = 4
        /\ {b, c} \subseteq Range(dependencies[f])
        /\ d \in Range(dependencies[b]) /\ d \in Range(dependencies[c])

\* A finished run over a tree whose compiled unit heads a diamond.
C2_Witness ==
    /\ pc = "done"
    /\ \E f \in DOMAIN files : Diamond(f) /\ files[f].extension = CCExt

-----------------------------------------------------------------------------
(* C9  Closure correctness: on every dependency graph, cyclic or not, the  *)
(* traversal from F returns exactly the Files reachable from F by one or   *)
(* more edges, each once, in depth-first pre-order of the direct edges.    *)

\* Depth-first pre-order by an explicit stack of Files still to visit.
RECURSIVE PreOrder(_, _, _)
PreOrder(stack, visited, order) ==
    IF stack = <<>> THEN order
    ELSE IF Head(stack) \in visited
         THEN PreOrder(Tail(stack), visited, order)
         ELSE PreOrder(dependencies[Head(stack)] \o Tail(stack),
                       visited \cup {Head(stack)}, Append(order, Head(stack)))

\* C9: the traversal yields the Files reachable by one or more edges, each
\* once, in depth-first pre-order.
C9_ClosureIsPreOrder ==
    EdgesDone =>
        \A f \in DOMAIN files :
            /\ Range(Closure(f)) = Reachable(f)
            /\ NoDup(Closure(f))
            /\ Closure(f) = PreOrder(dependencies[f], {}, <<>>)

\* A graph with a cycle through f, a diamond and a repeated direct edge.
C9_Witness ==
    /\ EdgesDone
    /\ \E f \in DOMAIN files : OnCycle(f) /\ Len(Closure(f)) >= 3
    /\ \E f \in DOMAIN files : ~NoDup(dependencies[f])

-----------------------------------------------------------------------------
(* C5  Unresolved include: if a File includes a name that is no key of the *)
(* completed alias map, the run aborts naming the file and the name, and   *)
(* nothing of the output document, preamble included, has been written at  *)
(* the abort.  The preamble is printed before the files are read, so the   *)
(* last part fails.                                                        *)

Unresolved(f) == {n \in Range(files[f].includes) : n \notin DOMAIN file_map}

\* C5: an unresolved include aborts the run, naming file and name, with
\* nothing written to the output.
C5_UnresolvedNoOutput ==
    /\ EdgesDone => \A f \in DOMAIN files : Unresolved(f) = {}
    /\ error.type = "UnresolvedInclude" =>
          /\ \E f \in DOMAIN files :
                error.file = files[f].filename /\ error.name \in Unresolved(f)
          /\ out = <<>>

-----------------------------------------------------------------------------
(* C7  Full transitive include list: the compile rule of every emitted     *)
(* compiled unit F lists the compile-time name of every file whose text is *)
(* reached from the text of F through include directives, F and its own    *)
(* header aside.  An include of x.h resolves to the File of x.cc, so what  *)
(* the text of x.h includes is lost, and the statement fails.              *)

IsCompiledUnit(f) == files[f].extension \in {CCExt, CExt}

\* The file whose text an include of name brings in: the file at that
\* path, or else the File that generates the name.
TextOf(name) ==
    IF \E g \in DOMAIN tree : tree[g].path = name
    THEN {g \in DOMAIN tree : tree[g].path = name}
    ELSE IF name \in DOMAIN file_map THEN {file_map[name]} ELSE {}

Directives(g) ==
    {tree[g].contents[n].v : n \in {m \in DOMAIN tree[g].contents :
        tree[g].contents[m].k = DirectiveOf(tree[g].path)}}

TextStep(S) == UNION {TextOf(name) : name \in UNION {Directives(g) : g \in S}}

RECURSIVE TextReach(_)
TextReach(S) ==
    LET next == S \cup TextStep(S) IN IF next = S THEN S ELSE TextReach(next)

OwnHeader(f) == {g \in DOMAIN files : files[g].filename = files[f].base \o <<HExt>>}

CompileName(g) == Last(get_aliases(files[g]))

CompileRules(f) ==
    {n \in DOMAIN out :
        /\ out[n].t = "compile"
        /\ out[n].targets = <<pathjoin(build_root, files[f].base \o <<"o">>)>>}

\* C7: the compile rule of a compiled unit lists every file its text
\* reaches through include directives.
C7_FullTransitiveIncludes ==
    pc = "done" =>
        \A f \in DOMAIN files :
            IsCompiledUnit(f) =>
                \E n \in CompileRules(f) :
                    \A g \in TextReach(TextStep({f})) \ ({f} \cup OwnHeader(f)) :
                        pathjoin(build_root, CompileName(g)) \in Range(out[n].prereqs)

-----------------------------------------------------------------------------
(* C3  Header subsumption: with a compiled unit x.cc or x.c and the header *)
(* x.h both discovered, in either order, the two never collide, x.h maps   *)
(* to the compiled unit, and the header owns no alias.                     *)

IsHeaderOf(h, u) ==
    /\ files[h].extension = HExt
    /\ files[u].extension \in {CCExt, CExt}
    /\ files[h].base = files[u].base

Owned(f) == {a \in DOMAIN file_map : file_map[a] = f}

\* C3: a header and its compiled unit never collide; the unit owns the
\* header's name and the header owns nothing.
C3_HeaderSubsumption ==
    \A h, u \in DOMAIN files :
        IsHeaderOf(h, u) =>
            /\ ~(/\ error.type = "DuplicateAlias"
                 /\ {error.file, Last(files).filename} =
                        {files[h].filename, files[u].filename})
            /\ error.type # "DuplicateAlias" =>
                  /\ files[h].filename \in DOMAIN file_map
                  /\ file_map[files[h].filename] = u
                  /\ Owned(h) = {}

\* The header was found first and the compiled unit took its name over.
C3_Witness ==
    /\ AliasMapDone
    /\ Len(files) = 2
    /\ IsHeaderOf(1, 2)
    /\ Owned(2) = {files[1].filename, files[2].filename}

-----------------------------------------------------------------------------
(* C4  Unrelated collision: a step of discovery in which the new file      *)
(* claims an alias whose owner answers INCOMPATIBLE ends the run with an   *)
(* error naming a contested alias; no dependency edge has been or is ever  *)
(* built, and no rule has been or is ever emitted.                         *)

Contested(map, F, new) ==
    {a \in Range(get_aliases(new)) :
        a \in DOMAIN map /\ has_relation(F[map[a]], new) = INCOMPATIBLE}

\* C4: a claim on an alias whose owner answers INCOMPATIBLE aborts the run
\* naming the alias, with no edge built and no rule emitted, then or later.
C4_UnrelatedCollisionAborts ==
    [][/\ (/\ pc = "discover"
           /\ Len(files') = Len(files) + 1
           /\ Contested(file_map, files, Last(files')) # {})
          => /\ pc' = "error"
             /\ error'.type = "DuplicateAlias"
             /\ error'.name \in Contested(file_map, files, Last(files'))
             /\ error'.file = files[file_map[error'.name]].filename
       /\ error'.type = "DuplicateAlias"
          => /\ \A f \in DOMAIN dependencies' : dependencies'[f] = <<>>
             /\ out' = <<Preamble>>
       /\ error.type = "DuplicateAlias" => UNCHANGED vars]_vars

\* x.c and x.cc meet on x.h once a file with includes has been read.
C4_Witness ==
    /\ error.type = "DuplicateAlias"
    /\ error.name = <<"x", "h">>
    /\ {files[f].extension : f \in DOMAIN files} = {CCExt, CExt, HExt}
    /\ \E f \in DOMAIN files : files[f].includes # <<>>

-----------------------------------------------------------------------------
(* C10  Discovery-order independence: every order of the discovered files  *)
(* gives the same outcome of alias-map construction: all abort on a        *)
(* collision, or all succeed with the same owner for every alias, and      *)
(* every owner owns all of its declared aliases.                           *)

RECURSIVE BuildMap(_, _, _)
BuildMap(t, F, map) ==
    IF Len(F) = Len(t) THEN [files |-> F, map |-> map, error |-> NoError]
    ELSE LET G == Append(F, NewFile(t[Len(F) + 1].path, t[Len(F) + 1].contents))
             r == InsertAliases(G, map, Len(G), 1)
         IN  IF r.error # NoError THEN [files |-> G, map |-> r.map, error |-> r.error]
             ELSE BuildMap(t, G, r.map)

Owners(F, map) == [a \in DOMAIN map |-> F[map[a]].filename]

\* C10: every order of the discovered files aborts, or every order builds
\* the same alias map, in which each owner owns all of its aliases.
C10_OrderIndependence ==
    \A t \in Orderings(Range(tree)) :
        LET r == BuildMap(t, <<>>, EmptyMap)
        IN  IF error.type = "DuplicateAlias"
            THEN r.error.type = "DuplicateAlias"
            ELSE /\ r.error = NoError
                 /\ Owners(r.files, r.map) = Owners(files, file_map)
                 /\ \A a \in DOMAIN file_map :
                       Range(get_aliases(files[file_map[a]])) \subseteq Owned(file_map[a])

\* Three files were mapped, among them a unit and its header, header last.
C10_Witness ==
    /\ AliasMapDone
    /\ Len(files) = 3
    /\ \E u \in DOMAIN files : IsHeaderOf(3, u)

-----------------------------------------------------------------------------
(* C6  Entry-point detection.  As claimed: every compiled unit, .cc or .c, *)
(* gets a link rule and one executable exactly if its text declares a      *)
(* program entry point.  That fails for .c, whose emit never links.        *)
(* Amended: it holds of every .cc unit, and a .c unit gets a compile rule  *)
(* only, entry point or not.                                               *)

HasEntryPoint(f) == \E n \in DOMAIN tree[f].contents : tree[f].contents[n].k = "main"

Executable(f) == pathjoin(build_root, files[f].base)

LinkRules(f) ==
    {n \in DOMAIN out : out[n].t = "link" /\ out[n].targets = <<Executable(f)>>}

TimesReported(f) ==
    Cardinality({n \in DOMAIN executables : executables[n] = Executable(f)})

Links(f) == Cardinality(LinkRules(f)) = 1 /\ TimesReported(f) = 1

CompilesOnly(f) ==
    Cardinality(CompileRules(f)) = 1 /\ LinkRules(f) = {} /\ TimesReported(f) = 0

\* C6 as claimed: a .cc or .c unit is linked exactly if its text declares
\* an entry point.
C6_EntryPointEitherKind ==
    pc = "done" =>
        \A f \in DOMAIN files :
            IsCompiledUnit(f) =>
                IF HasEntryPoint(f) THEN Cardinality(CompileRules(f)) = 1 /\ Links(f)
                ELSE CompilesOnly(f)

\* C6 amended: a .cc unit is linked exactly if its text declares an entry
\* point; a .c unit is compiled only.
C6_EntryPointCC ==
    pc = "done" =>
        \A f \in DOMAIN files :
            /\ files[f].extension = CCExt =>
                  IF HasEntryPoint(f) THEN Cardinality(CompileRules(f)) = 1 /\ Links(f)
                  ELSE CompilesOnly(f)
            /\ files[f].extension = CExt => CompilesOnly(f)

\* A .cc unit whose entry point is not on its first line, next to a unit
\* without one.
C6_Witness ==
    /\ pc = "done"
    /\ \E f, g \in DOMAIN files :
          /\ files[f].extension = CCExt /\ HasEntryPoint(f) /\ Links(f)
          /\ Head(tree[f].contents).k # "main"
          /\ files[g].extension = CCExt /\ ~HasEntryPoint(g) /\ CompilesOnly(g)

-----------------------------------------------------------------------------
(* C8  Flag propagation.  As claimed: a compiled unit with an entry point  *)
(* has its compile flags in its compile recipe, once each for every        *)
(* annotation and in source order, and its link flags in its link recipe,  *)
(* in source order.  A .c unit has no link recipe, so that fails.          *)
(* Amended: the compile part holds of .cc and .c units, the link part of   *)
(* .cc units.                                                              *)

RECURSIVE Annotations(_, _)
Annotations(text, marker) ==
    IF text = <<>> THEN <<>>
    ELSE (IF Head(text).k = marker THEN <<Head(text).v>> ELSE <<>>)
         \o Annotations(Tail(text), marker)

IsSuffix(s, t) == Len(s) <= Len(t) /\ SubSeq(t, Len(t) - Len(s) + 1, Len(t)) = s

CompileFlagsKept(f) ==
    \A n \in CompileRules(f) :
        out[n].args = Annotations(tree[f].contents, "compileargs")

LinkFlagsKept(f) ==
    /\ LinkRules(f) # {}
    /\ \A n \in LinkRules(f) :
          IsSuffix(Annotations(tree[f].contents, "linkargs"), out[n].args)

\* C8 as claimed: a .cc or .c unit with an entry point keeps its compile
\* flags, in order, in its compile recipe and its link flags in its link
\* recipe.
C8_FlagsEitherKind ==
    pc = "done" =>
        \A f \in DOMAIN files :
            (IsCompiledUnit(f) /\ HasEntryPoint(f)) =>
                CompileFlagsKept(f) /\ LinkFlagsKept(f)

\* C8 amended: a unit with an entry point keeps its compile flags, in
\* order, in its compile recipe; a .cc unit also keeps its link flags, in
\* order, in its link recipe.
C8_FlagsCC ==
    pc = "done" =>
        \A f \in DOMAIN files :
            (IsCompiledUnit(f) /\ HasEntryPoint(f)) =>
                /\ CompileRules(f) # {}
                /\ CompileFlagsKept(f)
                /\ files[f].extension = CCExt => LinkFlagsKept(f)

\* m.cc declares c1, then c2, an l1 and an entry point, and was linked.
C8_Witness ==
    /\ pc = "done"
    /\ files # <<>>
    /\ files[1].extension = CCExt
    /\ HasEntryPoint(1)
    /\ Annotations(tree[1].contents, "compileargs") = << <<"c1">>, <<"c2">> >>
    /\ Annotations(tree[1].contents, "linkargs") = << <<"l1">> >>
    /\ \E n \in LinkRules(1) : <<"l1">> \in Range(out[n].args)

====
